---------------------------- MODULE Spec2Model ----------------------------
(***************************************************************************)
(* Model of the binlog write path of sessionctx/binloginfo:                *)
(*   - the skip-on-error breaker of BinlogInfo.WriteBinlog                 *)
(*     (skipBinlog, ignoreError, metrics.CriticalErrorCounter), with       *)
(*     DisableSkipBinlogFlag and SetIgnoreError;                           *)
(*   - the shared pumps client handle (pumpsClient under pumpsClientLock)  *)
(*     with GetPumpsClient, SetPumpsClient, GetOrCreatePumpsClient.        *)
(* Every atomic load/store/CAS, every lock and unlock and every call of an *)
(* external collaborator is one step; purely local statements are folded   *)
(* into the step of the shared access that precedes them, and the access   *)
(* to pumpsClient made under pumpsClientLock into the step that acquires   *)
(* the lock.                                                               *)
(***************************************************************************)
EXTENDS Integers, FiniteSets, Sequences, TLC

\* ------------------------------------------------------------------ bounds
NumWriters == 2      \* goroutines calling WriteBinlog
MaxCrit == 3         \* cap of metrics.CriticalErrorCounter (unbounded in the code)
NumGoroutines == 3   \* goroutines using the shared pumps client handle
MaxCreate == 3       \* cap of the clients CreatePumpsClient constructs
MaxSet == 1          \* cap of the SetPumpsClient calls made from outside
MaxCreateHandle == 1 \* cap of the constructed clients where SetPumpsClient is also called from outside
MaxTokens == 3       \* pieces a statement text given to addSpecialComment is put together from
MaxAddrs == 3        \* candidates in the list given to ParseHostPortAddr

\* --------------------------------------------------------------- constants
NilClient == 0            \* the nil *pumpcli.PumpsClient
MockClient == 1           \* some non-nil client held in BinlogInfo.Client

Writers == 1..NumWriters
Goroutines == 1..NumGoroutines

\* Client identities: NilClient, MockClient (built outside this package and handed
\* to SetPumpsClient), and MockClient + k for the k-th client that
\* CreatePumpsClient constructs.

\* Outcomes of the relay client's WriteBinlog(info.Data): success, an error whose
\* text contains "received message larger than max", any other error.
RelayErrs == {"nil", "tooLarge", "other"}

VARIABLES
  \* ---- process-wide state
  skipBinlog,             \* var skipBinlog uint32
  ignoreError,            \* var ignoreError uint32
  criticalErrorCounter,   \* metrics.CriticalErrorCounter
  \* ---- one WriteBinlog call per writer goroutine
  pc,                     \* position of the writer in WriteBinlog ("idle": not in a call)
  info,                   \* info.Client of the call
  skip,                   \* local skip := atomic.LoadUint32(&skipBinlog)
  err,                    \* local err := info.Client.WriteBinlog(info.Data)
  ign,                    \* value read by atomic.LoadUint32(&ignoreError), -1: not read
  ret,                    \* what the call returned ("none": not returned yet)
  \* ---- history of the current/last call of each writer
  invoked,                \* times the call invoked info.Client.WriteBinlog
  adds,                   \* times the call ran CriticalErrorCounter.Add(1)
  swapped,                \* result of the call's CompareAndSwapUint32: "none", "won", "lost"
  skipAfterCas,           \* skipBinlog at the instant the call's CAS completed, -1: no CAS
  \* ---- history of the process
  casWins,                \* successful CompareAndSwapUint32 since the last reset
  everEnabled,            \* ignoreError has been 1 at some time
  resetSince,             \* DisableSkipBinlogFlag ran after the call in flight read skipBinlog
  \* ---- the shared handle
  pumpsClient,            \* var pumpsClient *pumpcli.PumpsClient
  rlocked,                \* pumpsClientLock: number of read locks held
  wlocked,                \* pumpsClientLock: the write lock is held
  created,                \* clients constructed so far by CreatePumpsClient
  \* ---- one handle operation per goroutine
  gpc,                    \* position of the goroutine ("idle": not in a call)
  op,                     \* the call it is in / was last in: "none", "Get", "Set", "GetOrCreate"
  client,                 \* local `client` (SetPumpsClient's argument, GetPumpsClient's result)
  cerr,                   \* local `err` of GetOrCreatePumpsClient is non-nil
  gret,                   \* what the call returned, -1: nothing returned (yet)
  \* ---- history of the handle
  setCalls,               \* SetPumpsClient calls made from outside GetOrCreatePumpsClient
  firstSeen,              \* the first non-nil client a GetPumpsClient call from outside returned
  lastSet,                \* argument of the latest SetPumpsClient whose store took effect
  \* ---- one addSpecialComment call and a second one on its result
  apc,                    \* "input": not called, "once": called, "twice": called on the result
  ddlQuery,               \* the argument ddlQuery, a sequence of bytes
  annotated,              \* addSpecialComment(ddlQuery)
  annotatedAgain,         \* addSpecialComment(annotated)
  \* ---- one ParseHostPortAddr call
  ppc,                    \* "input": not called, "done": returned
  hostPorts,              \* the argument s, a sequence of bytes
  addrs,                  \* the returned list (nil when an error is returned)
  perr                    \* the returned error, "nil": none

\* The variables of the calls of the pure functions; every step of the breaker
\* and of the handle leaves them alone.
fvars == <<apc, ddlQuery, annotated, annotatedAgain, ppc, hostPorts, addrs, perr>>
wlocals == <<pc, info, skip, err, ign, ret, invoked, adds, swapped, skipAfterCas>>
bvars == <<skipBinlog, ignoreError, criticalErrorCounter, wlocals, casWins, everEnabled,
           resetSince, fvars>>
glocals == <<gpc, op, client, cerr, gret>>
ghist == <<setCalls, firstSeen, lastSet>>
cvars == <<pumpsClient, rlocked, wlocked, created, glocals, ghist, fvars>>
vars == <<bvars, cvars>>

\* ---------------------------------------------------------- pure helpers

\* Mutant: the entry of WriteBinlog does not see the shared counter (a
\* per-writer or cached flag that is still zero).
StaleSkipBinlog == 0 * skipBinlog

\* atomic.LoadUint32(&skipBinlog): the current value of the shared counter.
LoadSkipBinlog == skipBinlog

\* Mutant: an unconditional atomic add instead of the compare-and-swap.
AddInsteadOfCas(cur, old, new) ==
  [val |-> cur + 1, swapped |-> (cur = old)]

\* Mutant: the CAS expects the new value instead of the observed one.
CasExpectsNew(cur, old, new) ==
  IF cur = new THEN [val |-> new, swapped |-> TRUE]
               ELSE [val |-> cur, swapped |-> FALSE]

\* atomic.CompareAndSwapUint32(addr, old, new): the value left in *addr and
\* whether the swap happened.
CompareAndSwapUint32(cur, old, new) ==
  IF cur = old THEN [val |-> new, swapped |-> TRUE]
               ELSE [val |-> cur, swapped |-> FALSE]

\* Mutant: no test for "received message larger than max".
AlwaysCritical(e) == "ErrCritical"

\* The error WriteBinlog returns for a relay error when ignoreError is not 1.
EscalatedError(e) ==
  IF e = "tooLarge" THEN "ErrTooLarge" ELSE "ErrCritical"

\* Mutant: the client is never taken for nil.
NeverNil(c) == FALSE

\* `info.Client == nil`
ClientIsNil(c) == c = NilClient

InFlight == Cardinality({w \in Writers : pc[w] # "idle"})

Returned(w) == pc[w] = "idle" /\ ret[w] # "none"

\* Goroutines inside GetOrCreatePumpsClient that may still construct a client.
Creating ==
  Cardinality({g \in Goroutines :
     op[g] = "GetOrCreate" /\ gpc[g] \in {"get_runlock", "goc_rlock", "goc_create"}})

\* ------------------------------------------------------------------- Init
InitClient ==
  /\ pumpsClient = NilClient
  /\ rlocked = 0
  /\ wlocked = FALSE
  /\ created = 0
  /\ gpc = [g \in Goroutines |-> "idle"]
  /\ op = [g \in Goroutines |-> "none"]
  /\ client = [g \in Goroutines |-> NilClient]
  /\ cerr = [g \in Goroutines |-> FALSE]
  /\ gret = [g \in Goroutines |-> -1]
  /\ setCalls = 0
  /\ firstSeen = NilClient
  /\ lastSet = NilClient

InitBreaker ==
  /\ skipBinlog = 0
  /\ ignoreError = 0
  /\ criticalErrorCounter = 0
  /\ pc = [w \in Writers |-> "idle"]
  /\ info = [w \in Writers |-> NilClient]
  /\ skip = [w \in Writers |-> 0]
  /\ err = [w \in Writers |-> "nil"]
  /\ ign = [w \in Writers |-> -1]
  /\ ret = [w \in Writers |-> "none"]
  /\ invoked = [w \in Writers |-> 0]
  /\ adds = [w \in Writers |-> 0]
  /\ swapped = [w \in Writers |-> "none"]
  /\ skipAfterCas = [w \in Writers |-> -1]
  /\ casWins = 0
  /\ everEnabled = FALSE
  /\ resetSince = [w \in Writers |-> FALSE]

\* No call of addSpecialComment or ParseHostPortAddr is under way.
InitAnnotateIdle ==
  /\ apc = "input"
  /\ ddlQuery = <<>>
  /\ annotated = <<>>
  /\ annotatedAgain = <<>>

InitParseIdle ==
  /\ ppc = "input"
  /\ hostPorts = <<>>
  /\ addrs = <<>>
  /\ perr = "nil"

Init == InitBreaker /\ InitClient /\ InitAnnotateIdle /\ InitParseIdle

\* ---------------------------------------------------------------- actions

\* WriteBinlog entry: skip := atomic.LoadUint32(&skipBinlog), then the local
\* tests `skip > 0` and `info.Client == nil`.
LoadSkip(w, c) ==
  /\ pc[w] = "idle"
  /\ criticalErrorCounter + InFlight < MaxCrit
  /\ info' = [info EXCEPT ![w] = c]
  /\ skip' = [skip EXCEPT ![w] = LoadSkipBinlog]
  /\ err' = [err EXCEPT ![w] = "nil"]
  /\ ign' = [ign EXCEPT ![w] = -1]
  /\ invoked' = [invoked EXCEPT ![w] = 0]
  /\ adds' = [adds EXCEPT ![w] = 0]
  /\ swapped' = [swapped EXCEPT ![w] = "none"]
  /\ skipAfterCas' = [skipAfterCas EXCEPT ![w] = -1]
  /\ resetSince' = [resetSince EXCEPT ![w] = FALSE]
  /\ IF LoadSkipBinlog > 0
       THEN /\ pc' = [pc EXCEPT ![w] = "skipAdd"]
            /\ ret' = [ret EXCEPT ![w] = "none"]
       ELSE IF ClientIsNil(c)
         THEN /\ pc' = [pc EXCEPT ![w] = "idle"]
              /\ ret' = [ret EXCEPT ![w] = "ErrNoClient"]
         ELSE /\ pc' = [pc EXCEPT ![w] = "call"]
              /\ ret' = [ret EXCEPT ![w] = "none"]
  /\ UNCHANGED <<skipBinlog, ignoreError, criticalErrorCounter, casWins, everEnabled, cvars>>

\* Mutant: the short-circuit returns without counting the dropped write.
SkipNoAdd(w) ==
  /\ pc[w] = "skipAdd"
  /\ ret' = [ret EXCEPT ![w] = "nil"]
  /\ pc' = [pc EXCEPT ![w] = "idle"]
  /\ UNCHANGED <<skipBinlog, ignoreError, criticalErrorCounter, casWins, everEnabled, resetSince,
                 info, skip, err, ign, invoked, adds, swapped, skipAfterCas, cvars>>

\* skip > 0: metrics.CriticalErrorCounter.Add(1); return nil
SkipAdd(w) ==
  /\ pc[w] = "skipAdd"
  /\ criticalErrorCounter' = criticalErrorCounter + 1
  /\ adds' = [adds EXCEPT ![w] = @ + 1]
  /\ ret' = [ret EXCEPT ![w] = "nil"]
  /\ pc' = [pc EXCEPT ![w] = "idle"]
  /\ UNCHANGED <<skipBinlog, ignoreError, casWins, everEnabled, resetSince,
                 info, skip, err, ign, invoked, swapped, skipAfterCas, cvars>>

\* Mutant: a relay call that succeeds closes the breaker again (an automatic
\* recovery the code does not have).
ClientWriteBinlogRecovers(w, e) ==
  /\ pc[w] = "call"
  /\ invoked' = [invoked EXCEPT ![w] = @ + 1]
  /\ err' = [err EXCEPT ![w] = e]
  /\ IF e = "nil"
       THEN /\ pc' = [pc EXCEPT ![w] = "idle"]
            /\ ret' = [ret EXCEPT ![w] = "nil"]
            /\ skipBinlog' = 0
            /\ casWins' = 0
       ELSE /\ pc' = [pc EXCEPT ![w] = "loadIgnore"]
            /\ UNCHANGED <<ret, skipBinlog, casWins>>
  /\ UNCHANGED <<ignoreError, criticalErrorCounter, everEnabled, resetSince,
                 info, skip, ign, adds, swapped, skipAfterCas, cvars>>

\* Mutant: a failed relay call is made again instead of being decided on.
ClientWriteBinlogRetries(w, e) ==
  /\ pc[w] = "call"
  /\ invoked' = [invoked EXCEPT ![w] = @ + 1]
  /\ err' = [err EXCEPT ![w] = e]
  /\ IF e = "nil"
       THEN /\ pc' = [pc EXCEPT ![w] = "idle"]
            /\ ret' = [ret EXCEPT ![w] = "nil"]
       ELSE /\ pc' = [pc EXCEPT ![w] = IF invoked[w] = 0 THEN "call" ELSE "loadIgnore"]
            /\ UNCHANGED ret
  /\ UNCHANGED <<skipBinlog, ignoreError, criticalErrorCounter, casWins, everEnabled, resetSince,
                 info, skip, ign, adds, swapped, skipAfterCas, cvars>>

\* Mutant: a relay call that succeeds is counted as a critical error.
ClientWriteBinlogCounts(w, e) ==
  /\ pc[w] = "call"
  /\ invoked' = [invoked EXCEPT ![w] = @ + 1]
  /\ err' = [err EXCEPT ![w] = e]
  /\ IF e = "nil"
       THEN /\ pc' = [pc EXCEPT ![w] = "idle"]
            /\ ret' = [ret EXCEPT ![w] = "nil"]
            /\ criticalErrorCounter' = criticalErrorCounter + 1
       ELSE /\ pc' = [pc EXCEPT ![w] = "loadIgnore"]
            /\ UNCHANGED <<ret, criticalErrorCounter>>
  /\ UNCHANGED <<skipBinlog, ignoreError, casWins, everEnabled, resetSince,
                 info, skip, ign, adds, swapped, skipAfterCas, cvars>>

\* err := info.Client.WriteBinlog(info.Data); `if err != nil`
ClientWriteBinlog(w, e) ==
  /\ pc[w] = "call"
  /\ invoked' = [invoked EXCEPT ![w] = @ + 1]
  /\ err' = [err EXCEPT ![w] = e]
  /\ IF e = "nil"
       THEN /\ pc' = [pc EXCEPT ![w] = "idle"]
            /\ ret' = [ret EXCEPT ![w] = "nil"]
       ELSE /\ pc' = [pc EXCEPT ![w] = "loadIgnore"]
            /\ UNCHANGED ret
  /\ UNCHANGED <<skipBinlog, ignoreError, criticalErrorCounter, casWins, everEnabled, resetSince,
                 info, skip, ign, adds, swapped, skipAfterCas, cvars>>

\* `if atomic.LoadUint32(&ignoreError) == 1`; otherwise the error is returned:
\* too-large as a plain error, anything else as terror.ErrCritical.
LoadIgnore(w) ==
  /\ pc[w] = "loadIgnore"
  /\ ign' = [ign EXCEPT ![w] = ignoreError]
  /\ IF ignoreError = 1
       THEN /\ pc' = [pc EXCEPT ![w] = "critAdd"]
            /\ UNCHANGED ret
       ELSE /\ pc' = [pc EXCEPT ![w] = "idle"]
            /\ ret' = [ret EXCEPT ![w] = EscalatedError(err[w])]
  /\ UNCHANGED <<skipBinlog, ignoreError, criticalErrorCounter, casWins, everEnabled, resetSince,
                 info, skip, err, invoked, adds, swapped, skipAfterCas, cvars>>

\* error ignored: metrics.CriticalErrorCounter.Add(1)
CritAdd(w) ==
  /\ pc[w] = "critAdd"
  /\ criticalErrorCounter' = criticalErrorCounter + 1
  /\ adds' = [adds EXCEPT ![w] = @ + 1]
  /\ pc' = [pc EXCEPT ![w] = "cas"]
  /\ UNCHANGED <<skipBinlog, ignoreError, casWins, everEnabled, resetSince,
                 info, skip, err, ign, ret, invoked, swapped, skipAfterCas, cvars>>

\* atomic.CompareAndSwapUint32(&skipBinlog, skip, skip+1); return nil.
\* The CAS is reached only on the path where the local skip is 0 (skip > 0
\* returned at the entry), so the uint32 sum skip+1 is 1 and cannot wrap.
CasSkip(w) ==
  /\ pc[w] = "cas"
  /\ LET r == CompareAndSwapUint32(skipBinlog, skip[w], skip[w] + 1)
     IN /\ skipBinlog' = r.val
        /\ swapped' = [swapped EXCEPT ![w] = IF r.swapped THEN "won" ELSE "lost"]
        /\ skipAfterCas' = [skipAfterCas EXCEPT ![w] = r.val]
        /\ casWins' = IF r.swapped THEN casWins + 1 ELSE casWins
  /\ ret' = [ret EXCEPT ![w] = "nil"]
  /\ pc' = [pc EXCEPT ![w] = "idle"]
  /\ UNCHANGED <<ignoreError, criticalErrorCounter, everEnabled, resetSince,
                 info, skip, err, ign, invoked, adds, cvars>>

\* DisableSkipBinlogFlag: atomic.StoreUint32(&skipBinlog, 0)
DisableSkipBinlogFlag ==
  /\ skipBinlog' = 0
  /\ casWins' = 0
  /\ resetSince' = [w \in Writers |-> pc[w] # "idle"]
  /\ UNCHANGED <<ignoreError, criticalErrorCounter, everEnabled, wlocals, cvars>>

\* SetIgnoreError(on): atomic.StoreUint32(&ignoreError, 1 or 0)
SetIgnoreError(on) ==
  /\ ignoreError' = IF on THEN 1 ELSE 0
  /\ everEnabled' = (everEnabled \/ on)
  /\ UNCHANGED <<skipBinlog, criticalErrorCounter, casWins, resetSince, wlocals, cvars>>

Next ==
  \/ \E w \in Writers, c \in {NilClient, MockClient} : LoadSkip(w, c)
  \/ \E w \in Writers : SkipAdd(w)
  \/ \E w \in Writers, e \in RelayErrs : ClientWriteBinlog(w, e)
  \/ \E w \in Writers : LoadIgnore(w)
  \/ \E w \in Writers : CritAdd(w)
  \/ \E w \in Writers : CasSkip(w)
  \/ DisableSkipBinlogFlag
  \/ \E on \in BOOLEAN : SetIgnoreError(on)

Spec == Init /\ [][Next]_vars

\* ------------------------------------------------ properties of the breaker

\* C1: a WriteBinlog call that read a skip counter > 0 never invokes the relay
\* client, is on the short-circuit path only, and once returned has returned nil
\* after exactly one CriticalErrorCounter.Add(1) -- whatever info.Client and
\* ignoreError are.
C1_OpenBreakerShortCircuits ==
  \A w \in Writers :
    skip[w] > 0 =>
      /\ invoked[w] = 0
      /\ pc[w] \in {"skipAdd", "idle"}
      /\ swapped[w] = "none"
      /\ Returned(w) => (ret[w] = "nil" /\ adds[w] = 1)

\* C1 witness: a call with a nil client, made while ignoreError is 0, has
\* returned nil through the short-circuit.
C1_Witness ==
  \E w \in Writers :
    /\ Returned(w) /\ skip[w] > 0 /\ info[w] = NilClient
    /\ ignoreError = 0 /\ ret[w] = "nil" /\ adds[w] = 1

\* C2 (as claimed): a call whose relay call failed with message-too-large
\* returns the PayloadTooLarge error and does not touch the skip counter, for
\* both values of ignoreError.
C2_TooLargeNeverTrips ==
  \A w \in Writers :
    (Returned(w) /\ err[w] = "tooLarge") =>
      (ret[w] = "ErrTooLarge" /\ swapped[w] = "none")

\* C3: after every step the skip counter equals the number of
\* compare-and-swaps that succeeded since the last reset (not the number of
\* failed writes); and the CAS step of a failing writer raises the counter by
\* exactly 1 when the counter still has the value the writer observed at its
\* entry, and leaves it as it is when that value is stale.
C3_SkipCountsCasWinners ==
  [][ /\ skipBinlog' = casWins'
      /\ \A w \in Writers :
           (pc[w] = "cas" /\ pc'[w] # "cas") =>
             IF skipBinlog = skip[w]
               THEN skipBinlog' = skipBinlog + 1 /\ swapped'[w] = "won"
               ELSE skipBinlog' = skipBinlog /\ swapped'[w] = "lost" ]_vars

\* C3 witness: two writers failed with errors ignored and no reset in between;
\* one CAS won, the stale one lost, and the counter is 1, not 2.
C3_Witness ==
  \E w1, w2 \in Writers :
    /\ w1 # w2 /\ Returned(w1) /\ Returned(w2)
    /\ err[w1] # "nil" /\ err[w2] # "nil" /\ ign[w1] = 1 /\ ign[w2] = 1
    /\ swapped[w1] = "won" /\ swapped[w2] = "lost"
    /\ skipBinlog = 1 /\ casWins = 1

\* C4: a call that read skip 0, had a client, got a relay failure other than
\* too-large and read ignoreError = 1 returns nil after exactly one
\* CriticalErrorCounter.Add(1), and the skip counter was > 0 at the instant its
\* compare-and-swap completed.
C4_IgnoredFailureTrips ==
  \A w \in Writers :
    /\ (Returned(w) /\ err[w] = "other" /\ ign[w] = 1) =>
         (ret[w] = "nil" /\ adds[w] = 1 /\ skipAfterCas[w] > 0 /\ invoked[w] = 1)
    /\ (pc[w] = "cas" /\ err[w] = "other") => (adds[w] = 1 /\ ign[w] = 1)

\* C4 witness: such a call has returned, and its CAS lost (the breaker had been
\* tripped by another writer in the meantime).
C4_Witness ==
  \E w \in Writers :
    /\ Returned(w) /\ err[w] = "other" /\ ign[w] = 1 /\ skip[w] = 0
    /\ info[w] # NilClient /\ swapped[w] = "lost" /\ ret[w] = "nil"

C6_NilClientFails ==
  \A w \in Writers :
    /\ (pc[w] # "idle" /\ skip[w] = 0) => info[w] # NilClient
    /\ (Returned(w) /\ skip[w] = 0 /\ info[w] = NilClient) =>
         /\ ret[w] = "ErrNoClient"
         /\ invoked[w] = 0 /\ adds[w] = 0 /\ swapped[w] = "none" /\ ign[w] = -1

\* C6 witness: the no-client error was returned while ignoreError is 1 and the
\* breaker is closed.
C6_Witness ==
  /\ ignoreError = 1
  /\ skipBinlog = 0
  /\ \E w \in Writers :
       Returned(w) /\ skip[w] = 0 /\ info[w] = NilClient /\ ret[w] = "ErrNoClient"

\* C7: the skip counter is lowered only by DisableSkipBinlogFlag: a step that
\* lowers it sets it to 0 and is no step of any WriteBinlog call and no
\* SetIgnoreError; every other step leaves it equal or raises it.
C7_OnlyResetLowers ==
  [][ skipBinlog' < skipBinlog =>
        (skipBinlog' = 0 /\ UNCHANGED <<wlocals, ignoreError, criticalErrorCounter>>) ]_vars

\* C7 witness: the breaker is open, ignoreError has been switched off again,
\* and a write that went to the relay client and succeeded has returned -- the
\* counter stayed up.
C7_Witness ==
  /\ skipBinlog > 0 /\ ignoreError = 0 /\ everEnabled
  /\ \E w \in Writers : Returned(w) /\ invoked[w] = 1 /\ err[w] = "nil"
  /\ \E w \in Writers : Returned(w) /\ skip[w] > 0

\* C8 (as claimed): while the skip counter is > 0 no writer invokes the relay
\* client, and every call that returns returns nil -- writers already inside
\* WriteBinlog included.
C8_TripStopsEveryWriter ==
  [][ \A w \in Writers :
        skipBinlog > 0 =>
          /\ ~(pc[w] = "call" /\ pc'[w] # "call")
          /\ (pc[w] # "idle" /\ pc'[w] = "idle") => ret'[w] = "nil" ]_vars

\* C8 (amended): the trip reaches every writer that reads the counter from
\* then on: a call that starts while the skip counter is > 0 takes the
\* short-circuit path, whoever tripped the breaker; only a writer that read 0
\* (before the trip or after a reset) invokes the relay client; a call on the
\* short-circuit path returns nil without having invoked it.
C8_TripStopsLaterReaders ==
  [][ \A w \in Writers :
        /\ (skipBinlog > 0 /\ pc[w] = "idle") =>
             /\ pc'[w] \in {"idle", "skipAdd"}
             /\ ret'[w] \in {ret[w], "none"}
             /\ pc'[w] = "skipAdd" => skip'[w] > 0
        /\ (pc[w] = "call" /\ pc'[w] # "call") => skip[w] = 0
        /\ (pc[w] = "skipAdd" /\ pc'[w] = "idle") =>
             (ret'[w] = "nil" /\ invoked'[w] = 0) ]_vars

\* C8 witness: one writer's CAS tripped the breaker and another writer, which
\* started afterwards (it read a counter > 0), has returned nil without
\* invoking its client.
C8_Witness ==
  \E w1, w2 \in Writers :
    /\ w1 # w2 /\ swapped[w1] = "won" /\ skipBinlog > 0
    /\ Returned(w2) /\ skip[w2] > 0 /\ info[w2] # NilClient
    /\ ret[w2] = "nil" /\ invoked[w2] = 0

\* C16: a WriteBinlog call invokes the relay client at most once: the call
\* statement is entered only from the entry of WriteBinlog, every step out of
\* it goes to the return or to the ignoreError test, and the number of relay
\* invocations of a call never exceeds 1.
C16_RelayCalledAtMostOnce ==
  [][\A w \in Writers :
       /\ invoked'[w] <= 1
       /\ (pc'[w] = "call" /\ pc[w] # "call") => (pc[w] = "idle" /\ invoked'[w] = 0)
       /\ (pc[w] = "call" /\ pc'[w] # pc[w]) =>
            (pc'[w] \in {"idle", "loadIgnore"} /\ invoked'[w] = 1)
       /\ (invoked[w] = 1 /\ pc[w] # "idle") => invoked'[w] = 1
  ]_vars

\* C16 witness: a call whose only relay call failed has returned after the
\* ignored-error path, with the relay invoked once.
C16_Witness ==
  \E w \in Writers :
    /\ Returned(w) /\ err[w] = "other" /\ invoked[w] = 1
    /\ swapped[w] = "won" /\ ret[w] = "nil"

\* C17: the step in which the relay call of a WriteBinlog call succeeds
\* returns nil and leaves skipBinlog, ignoreError, CriticalErrorCounter and
\* pumpsClient as they are; so does the entry step that read the counter; and
\* a call that returned after a successful relay call has added nothing to
\* CriticalErrorCounter and has attempted no compare-and-swap.
C17_SuccessChangesNothing ==
  [][\A w \in Writers :
       /\ (pc[w] = "call" /\ pc'[w] = "idle") =>
            /\ err'[w] = "nil" /\ ret'[w] = "nil"
            /\ skipBinlog' = skipBinlog /\ ignoreError' = ignoreError
            /\ criticalErrorCounter' = criticalErrorCounter
            /\ pumpsClient' = pumpsClient
       /\ (pc[w] = "idle" /\ pc'[w] = "call") =>
            /\ skipBinlog' = skipBinlog /\ ignoreError' = ignoreError
            /\ criticalErrorCounter' = criticalErrorCounter
            /\ pumpsClient' = pumpsClient
       /\ (Returned(w) /\ invoked[w] = 1 /\ err[w] = "nil") =>
            (ret[w] = "nil" /\ adds[w] = 0 /\ swapped[w] = "none")
  ]_vars

\* C17 witness: a call has returned nil after a successful relay call while
\* the breaker is open, ignoreError is on and errors have been counted.
C17_Witness ==
  /\ skipBinlog = 1 /\ ignoreError = 1 /\ criticalErrorCounter > 0
  /\ \E w \in Writers :
       Returned(w) /\ invoked[w] = 1 /\ err[w] = "nil" /\ ret[w] = "nil"

\* C18: the skip counter is 0 or 1 in every reachable state, and a writer
\* that is about to compare-and-swap (or is on the way to it) read the counter
\* as 0, so the swap it attempts is 0 -> 1.
C18_SkipIsZeroOrOne ==
  /\ skipBinlog \in {0, 1}
  /\ \A w \in Writers :
       /\ pc[w] \in {"call", "loadIgnore", "critAdd", "cas"} => skip[w] = 0
       /\ skipAfterCas[w] \in {-1, 0, 1}

\* C18 witness: the breaker is open and another writer, which read 0 before
\* it was tripped, is about to attempt its compare-and-swap.
C18_Witness ==
  /\ skipBinlog = 1
  /\ \E w1, w2 \in Writers :
       /\ w1 # w2
       /\ Returned(w1) /\ swapped[w1] = "won"
       /\ pc[w2] = "cas" /\ skip[w2] = 0

\* C19 (as claimed): the skip counter leaves 0 only in the compare-and-swap
\* of a writer whose relay call failed and which read the counter after the
\* latest DisableSkipBinlogFlag: no reset ran between that writer's read of
\* skipBinlog and its compare-and-swap.
C19_StaleWriterCannotReopen ==
  [][ (skipBinlog = 0 /\ skipBinlog' # 0) =>
        \E w \in Writers :
          /\ pc[w] = "cas" /\ pc'[w] = "idle" /\ err[w] # "nil"
          /\ swapped'[w] = "won"
          /\ ~resetSince[w] ]_vars

\* ------------------------------------------------- actions of the handle
\* pumpsClientLock is a sync.RWMutex: RLock waits while the write lock is held,
\* Lock waits while any lock is held.  (That a waiting Lock also holds back new
\* readers only removes interleavings; it is not modelled.)
\* pumpsClient is read and written only with the lock held, so it cannot change
\* while a read lock is held and cannot be read while the write lock is held:
\* the read is taken in the step that acquires the read lock and the store in
\* the step that acquires the write lock.

\* GetPumpsClient, called from outside (o = "Get") or as the first statement of
\* GetOrCreatePumpsClient (o = "GetOrCreate"):
\* pumpsClientLock.RLock(); client := pumpsClient
GetPumpsClientRLock(g, o) ==
  /\ gpc[g] = "idle"
  /\ o = "GetOrCreate" => created + Creating < MaxCreate
  /\ ~wlocked
  /\ rlocked' = rlocked + 1
  /\ op' = [op EXCEPT ![g] = o]
  /\ client' = [client EXCEPT ![g] = pumpsClient]
  /\ cerr' = [cerr EXCEPT ![g] = FALSE]
  /\ gret' = [gret EXCEPT ![g] = -1]
  /\ gpc' = [gpc EXCEPT ![g] = "get_runlock"]
  /\ UNCHANGED <<pumpsClient, wlocked, created, ghist, bvars>>

\* pumpsClientLock.RUnlock(); return client.  In GetOrCreatePumpsClient the
\* result is tested at once: `if client == nil { ... }; return client`.
GetPumpsClientRUnlock(g) ==
  /\ gpc[g] = "get_runlock"
  /\ rlocked' = rlocked - 1
  /\ IF op[g] = "GetOrCreate"
       THEN /\ IF client[g] = NilClient
                 THEN /\ gpc' = [gpc EXCEPT ![g] = "goc_rlock"]
                      /\ UNCHANGED <<gret, client>>
                 ELSE /\ gpc' = [gpc EXCEPT ![g] = "idle"]
                      /\ gret' = [gret EXCEPT ![g] = client[g]]
                      /\ client' = [client EXCEPT ![g] = NilClient]
            /\ UNCHANGED <<op, firstSeen>>
       ELSE /\ gpc' = [gpc EXCEPT ![g] = "idle"]
            /\ op' = [op EXCEPT ![g] = "none"]
            /\ client' = [client EXCEPT ![g] = NilClient]
            /\ firstSeen' = IF firstSeen = NilClient THEN client[g] ELSE firstSeen
            /\ UNCHANGED gret
  /\ UNCHANGED <<pumpsClient, wlocked, created, cerr, setCalls, lastSet, bvars>>

\* GetOrCreatePumpsClient, client == nil: pumpsClientLock.RLock()
GetOrCreateRLock(g) ==
  /\ gpc[g] = "goc_rlock"
  /\ ~wlocked
  /\ rlocked' = rlocked + 1
  /\ gpc' = [gpc EXCEPT ![g] = "goc_create"]
  /\ UNCHANGED <<pumpsClient, wlocked, created, op, client, cerr, gret, ghist, bvars>>

\* client, err = CreatePumpsClient(): pumpcli.NewPumpsClient or
\* NewLocalPumpsClient builds a new client, or fails.
CreatePumpsClient(g, ok) ==
  /\ gpc[g] = "goc_create"
  /\ IF ok
       THEN /\ created' = created + 1
            /\ client' = [client EXCEPT ![g] = MockClient + created + 1]
            /\ cerr' = [cerr EXCEPT ![g] = FALSE]
       ELSE /\ client' = [client EXCEPT ![g] = NilClient]
            /\ cerr' = [cerr EXCEPT ![g] = TRUE]
            /\ UNCHANGED created
  /\ gpc' = [gpc EXCEPT ![g] = "goc_runlock"]
  /\ UNCHANGED <<pumpsClient, rlocked, wlocked, op, gret, ghist, bvars>>

\* Mutant: the construction error is not tested; the call goes on to the
\* logger and to SetPumpsClient with whatever CreatePumpsClient returned.
GetOrCreateRUnlockIgnoresErr(g) ==
  /\ gpc[g] = "goc_runlock"
  /\ rlocked' = rlocked - 1
  /\ gpc' = [gpc EXCEPT ![g] = "goc_initlog"]
  /\ UNCHANGED <<gret, cerr>>
  /\ UNCHANGED <<pumpsClient, wlocked, created, op, client, ghist, bvars>>

\* pumpsClientLock.RUnlock(); `if err != nil { return nil }`
GetOrCreateRUnlock(g) ==
  /\ gpc[g] = "goc_runlock"
  /\ rlocked' = rlocked - 1
  /\ IF cerr[g]
       THEN /\ gpc' = [gpc EXCEPT ![g] = "idle"]
            /\ gret' = [gret EXCEPT ![g] = NilClient]
            /\ cerr' = [cerr EXCEPT ![g] = FALSE]
       ELSE /\ gpc' = [gpc EXCEPT ![g] = "goc_initlog"]
            /\ UNCHANGED <<gret, cerr>>
  /\ UNCHANGED <<pumpsClient, wlocked, created, op, client, ghist, bvars>>

\* err = pumpcli.InitLogger(...); `if err != nil { return nil }`
InitLogger(g, ok) ==
  /\ gpc[g] = "goc_initlog"
  /\ IF ok
       THEN /\ gpc' = [gpc EXCEPT ![g] = "set_lock"]
            /\ UNCHANGED <<gret, client>>
       ELSE /\ gpc' = [gpc EXCEPT ![g] = "idle"]
            /\ gret' = [gret EXCEPT ![g] = NilClient]
            /\ client' = [client EXCEPT ![g] = NilClient]
  /\ UNCHANGED <<pumpsClient, rlocked, wlocked, created, op, cerr, ghist, bvars>>

\* Mutant: the store is made without waiting for pumpsClientLock.
SetPumpsClientStoreNoLock(g, c) ==
  /\ wlocked' = TRUE
  /\ pumpsClient' = c
  /\ lastSet' = c
  /\ gpc' = [gpc EXCEPT ![g] = "set_unlock"]

\* SetPumpsClient(c): pumpsClientLock.Lock(); pumpsClient = client
SetPumpsClientStore(g, c) ==
  /\ ~wlocked /\ rlocked = 0
  /\ wlocked' = TRUE
  /\ pumpsClient' = c
  /\ lastSet' = c
  /\ gpc' = [gpc EXCEPT ![g] = "set_unlock"]

\* SetPumpsClient(c) called from outside GetOrCreatePumpsClient
SetPumpsClient(g, c) ==
  /\ gpc[g] = "idle"
  /\ setCalls < MaxSet
  /\ SetPumpsClientStore(g, c)
  /\ op' = [op EXCEPT ![g] = "Set"]
  /\ gret' = [gret EXCEPT ![g] = -1]
  /\ setCalls' = setCalls + 1
  /\ UNCHANGED <<rlocked, created, client, cerr, firstSeen, bvars>>

\* SetPumpsClient(client) at the end of GetOrCreatePumpsClient
GetOrCreateSet(g) ==
  /\ gpc[g] = "set_lock"
  /\ SetPumpsClientStore(g, client[g])
  /\ UNCHANGED <<rlocked, created, op, client, cerr, gret, setCalls, firstSeen, bvars>>

\* pumpsClientLock.Unlock(); GetOrCreatePumpsClient then does `return client`
SetPumpsClientUnlock(g) ==
  /\ gpc[g] = "set_unlock"
  /\ wlocked' = FALSE
  /\ gpc' = [gpc EXCEPT ![g] = "idle"]
  /\ IF op[g] = "GetOrCreate"
       THEN /\ gret' = [gret EXCEPT ![g] = client[g]]
            /\ UNCHANGED op
       ELSE /\ op' = [op EXCEPT ![g] = "none"]
            /\ UNCHANGED gret
  /\ client' = [client EXCEPT ![g] = NilClient]
  /\ UNCHANGED <<pumpsClient, rlocked, created, cerr, ghist, bvars>>

\* Concurrent GetOrCreatePumpsClient and GetPumpsClient calls; SetPumpsClient
\* is called by GetOrCreatePumpsClient only.
NextClient ==
  \/ \E g \in Goroutines, o \in {"Get", "GetOrCreate"} : GetPumpsClientRLock(g, o)
  \/ \E g \in Goroutines : GetPumpsClientRUnlock(g)
  \/ \E g \in Goroutines : GetOrCreateRLock(g)
  \/ \E g \in Goroutines, ok \in BOOLEAN : CreatePumpsClient(g, ok)
  \/ \E g \in Goroutines : GetOrCreateRUnlock(g)
  \/ \E g \in Goroutines, ok \in BOOLEAN : InitLogger(g, ok)
  \/ \E g \in Goroutines : GetOrCreateSet(g)
  \/ \E g \in Goroutines : SetPumpsClientUnlock(g)

SpecClient == Init /\ [][NextClient]_vars

\* The same with SetPumpsClient also called from outside.
NextHandle ==
  \/ \E g \in Goroutines : GetPumpsClientRLock(g, "Get")
  \/ \E g \in Goroutines :
       created + Creating < MaxCreateHandle /\ GetPumpsClientRLock(g, "GetOrCreate")
  \/ \E g \in Goroutines : GetPumpsClientRUnlock(g)
  \/ \E g \in Goroutines : GetOrCreateRLock(g)
  \/ \E g \in Goroutines, ok \in BOOLEAN : CreatePumpsClient(g, ok)
  \/ \E g \in Goroutines : GetOrCreateRUnlock(g)
  \/ \E g \in Goroutines, ok \in BOOLEAN : InitLogger(g, ok)
  \/ \E g \in Goroutines : GetOrCreateSet(g)
  \/ \E g \in Goroutines : SetPumpsClientUnlock(g)
  \/ \E g \in Goroutines, c \in {NilClient, MockClient} : SetPumpsClient(g, c)

SpecHandle == Init /\ [][NextHandle]_vars

\* ------------------------------------------------- properties of the handle

\* C9 (as claimed): when (at most) two GetOrCreatePumpsClient calls construct a
\* client for the absent handle, every GetPumpsClient call that returns non-nil
\* returns the same client: the value a GetPumpsClient call is about to return
\* is, if non-nil, the first non-nil one any such call returned.
C9_OneObservableClient ==
  created <= 2 =>
    \A g \in Goroutines :
      (op[g] = "Get" /\ gpc[g] = "get_runlock"
         /\ client[g] # NilClient /\ firstSeen # NilClient) => client[g] = firstSeen

\* C10 (as claimed): while the handle is still absent CreatePumpsClient has
\* constructed at most two clients (one needed, one redundant).
C10_AtMostOneRedundantCreate ==
  pumpsClient = NilClient => created <= 2

\* C11: a GetOrCreatePumpsClient call that found the handle absent and whose
\* CreatePumpsClient failed returns nil in the step that tests the error, and
\* one whose InitLogger failed returns nil in that step; neither step touches
\* pumpsClient or the lock word of a writer, and a call that is inside
\* SetPumpsClient holds a client that was constructed without error.
C11_FailedCreateReturnsNil ==
  [][\A g \in Goroutines :
       /\ (gpc[g] = "goc_runlock" /\ cerr[g] /\ gpc'[g] # gpc[g]) =>
            /\ gpc'[g] = "idle" /\ gret'[g] = NilClient
            /\ pumpsClient' = pumpsClient /\ wlocked' = wlocked
       /\ (gpc[g] = "goc_initlog" /\ gpc'[g] # gpc[g]) =>
            /\ gpc'[g] \in {"set_lock", "idle"}
            /\ gpc'[g] = "idle" => gret'[g] = NilClient
            /\ pumpsClient' = pumpsClient /\ wlocked' = wlocked
       /\ (op'[g] = "GetOrCreate" /\ gpc'[g] \in {"set_lock", "set_unlock"}) =>
            (client'[g] # NilClient /\ ~cerr'[g])
  ]_vars

\* C11 witness: the handle is absent, one client was constructed, and two
\* GetOrCreatePumpsClient calls have returned nil: one after a failed
\* CreatePumpsClient, the other after a failed InitLogger.
C11_Witness ==
  /\ pumpsClient = NilClient /\ created = 1 /\ ~wlocked
  /\ \E g1, g2 \in Goroutines :
       /\ g1 # g2
       /\ \A g \in {g1, g2} :
            op[g] = "GetOrCreate" /\ gpc[g] = "idle" /\ gret[g] = NilClient
  /\ \A g \in Goroutines : gpc[g] = "idle"

\* C12: the handle is one register guarded by pumpsClientLock.  No read lock
\* is held together with the write lock; the value a GetPumpsClient call read
\* and is about to return is the handle's value, which is the argument of the
\* latest SetPumpsClient whose store took effect (nil when there was none);
\* and pumpsClient changes only in the store step of a SetPumpsClient call,
\* made with the write lock and no reader, to exactly that call's argument.
C12_HandleIsAtomicRegister ==
  [][ /\ ~(wlocked /\ rlocked > 0)
      /\ pumpsClient = lastSet
      /\ \A g \in Goroutines :
           gpc[g] = "get_runlock" => (client[g] = pumpsClient /\ client[g] = lastSet)
      /\ pumpsClient' # pumpsClient =>
           /\ rlocked = 0 /\ ~wlocked /\ wlocked'
           /\ \E g \in Goroutines :
                /\ gpc[g] \in {"idle", "set_lock"} /\ gpc'[g] = "set_unlock"
                /\ gpc[g] = "set_lock" => pumpsClient' = client[g]
  ]_vars

\* C12 witness: a GetPumpsClient call holds the read lock and is about to
\* return the client a SetPumpsClient call from outside stored over the one
\* GetOrCreatePumpsClient had constructed and set.
C12_Witness ==
  /\ created = 1 /\ setCalls = 1 /\ lastSet = MockClient
  /\ \E g \in Goroutines :
       op[g] = "Get" /\ gpc[g] = "get_runlock" /\ client[g] = MockClient
  /\ \E g \in Goroutines :
       op[g] = "GetOrCreate" /\ gpc[g] = "idle" /\ gret[g] = MockClient + 1

\* C20 (as claimed): once every GetOrCreatePumpsClient call has returned (no
\* goroutine is inside a handle operation, SetPumpsClient is called by
\* GetOrCreatePumpsClient only), each non-nil client such a call returned is
\* the client the handle holds.
C20_ReturnedClientIsHeld ==
  (\A g \in Goroutines : gpc[g] = "idle") =>
    \A g \in Goroutines :
      (op[g] = "GetOrCreate" /\ gret[g] # -1 /\ gret[g] # NilClient) =>
        gret[g] = pumpsClient

\* ------------------------------------------------------- the DDL annotator

\* A text (a Go string) is the sequence of its bytes; an ASCII byte is written
\* as its character, a byte of a multi-byte UTF-8 character as its hexadecimal
\* value.

\* const specialPrefix = `/*!90000 `
specialPrefix == <<"/", "*", "!", "9", "0", "0", "0", "0", " ">>

\* the literal ` */` that closes the comment
specialSuffix == <<" ", "*", "/">>

\* the literal SHARD_ROW_ID_BITS of the regular expression
ShardRowIDBits == <<"S", "H", "A", "R", "D", "_", "R", "O", "W", "_", "I", "D", "_", "B", "I", "T", "S">>

\* \s and \d of Go's regexp
PerlSpace == {" ", "\t", "\n", "\f", "\r"}
PerlDigit == {"0", "1", "2", "3", "4", "5", "6", "7", "8", "9"}

AsciiLower == <<"a", "b", "c", "d", "e", "f", "g", "h", "i", "j", "k", "l", "m", "n", "o", "p", "q", "r", "s", "t", "u", "v", "w", "x", "y", "z">>
AsciiUpper == <<"A", "B", "C", "D", "E", "F", "G", "H", "I", "J", "K", "L", "M", "N", "O", "P", "Q", "R", "S", "T", "U", "V", "W", "X", "Y", "Z">>

\* U+017F (latin small letter long s), two bytes; unicode.ToUpper gives U+0053,
\* the one byte S.
LongS == <<"c5", "bf">>
LongSUpper == <<"S">>

\* U+0250 (latin small letter turned a), two bytes; unicode.ToUpper gives
\* U+2C6F, three bytes.
TurnedA == <<"c9", "90">>
TurnedAUpper == <<"e2", "b1", "af">>

\* The pieces the statement texts are put together from: clauses in upper and
\* lower case, with and without blanks, a keyword alone, the characters of a
\* clause, two letters whose upper case has another byte length, the marker,
\* the marker without its first byte, and some other text.
Tokens ==
  { <<"S", "H", "A", "R", "D", "_", "R", "O", "W", "_", "I", "D", "_", "B", "I", "T", "S", "=", "4">>,
    <<"s", "h", "a", "r", "d", "_", "r", "o", "w", "_", "i", "d", "_", "b", "i", "t", "s", " ", "=", " ", "4", "2">>,
    <<"S", "h", "a", "r", "d", "_", "R", "o", "w", "_", "I", "d", "_", "B", "i", "t", "s">>,
    <<"=">>, <<" ">>, <<"7">>, <<"t">>,
    LongS, TurnedA,
    specialPrefix,
    Tail(specialPrefix) }

RECURSIVE Flatten(_)
Flatten(ts) == IF ts = <<>> THEN <<>> ELSE Head(ts) \o Flatten(Tail(ts))

\* The statement texts: up to MaxTokens pieces in a row.
Queries ==
  { Flatten(ts) : ts \in UNION { [1..n -> Tokens] : n \in 0..MaxTokens } }

\* the bytes of t from index i on start with p (i counts from 1)
HasPrefixAt(t, i, p) ==
  /\ i + Len(p) - 1 <= Len(t)
  /\ SubSeq(t, i, i + Len(p) - 1) = p

\* strings.Contains(t, p)
Contains(t, p) == \E i \in 1..(Len(t) + 1) : HasPrefixAt(t, i, p)

\* number of places where p occurs in t
Occurrences(t, p) == Cardinality({i \in 1..(Len(t) + 1) : HasPrefixAt(t, i, p)})

\* unicode.ToUpper of an ASCII byte
UpperByte(c) ==
  IF \E i \in 1..Len(AsciiLower) : AsciiLower[i] = c
    THEN AsciiUpper[CHOOSE i \in 1..Len(AsciiLower) : AsciiLower[i] = c]
    ELSE c

\* The bytes unicode.ToUpper and the encoder write for the character that
\* starts at byte i of t; nothing for a byte that continues a character.
UpperAt(t, i) ==
  IF HasPrefixAt(t, i, LongS) THEN LongSUpper
  ELSE IF HasPrefixAt(t, i, TurnedA) THEN TurnedAUpper
  ELSE IF i > 1 /\ (HasPrefixAt(t, i - 1, LongS) \/ HasPrefixAt(t, i - 1, TurnedA)) THEN <<>>
  ELSE <<UpperByte(t[i])>>

\* The upper case of the characters that start at the bytes lo..hi of t.
RECURSIVE ToUpperRange(_, _, _)
ToUpperRange(t, lo, hi) ==
  IF lo > hi THEN <<>>
  ELSE IF lo = hi THEN UpperAt(t, lo)
  ELSE LET mid == (lo + hi) \div 2
       IN ToUpperRange(t, lo, mid) \o ToUpperRange(t, mid + 1, hi)

\* strings.ToUpper: every character is mapped by unicode.ToUpper and encoded
\* again, so the result may be shorter or longer than the argument.  (The
\* texts are made of ASCII bytes and whole LongS and TurnedA characters.)
ToUpper(t) == ToUpperRange(t, 1, Len(t))

\* ASCII letters in upper case, every other byte as it is: the text compared
\* without regard to case, byte for byte.
FoldCase(t) == [i \in 1..Len(t) |-> UpperByte(t[i])]

\* the first index from i on whose byte is not in class (greedy x*)
RECURSIVE SkipClass(_, _, _)
SkipClass(t, i, class) ==
  IF i <= Len(t) /\ t[i] \in class THEN SkipClass(t, i + 1, class) ELSE i

\* SHARD_ROW_ID_BITS\s*=\s*\d+ matched at index i of t: the index after the
\* match, 0 when there is no match at i.  The classes \s, = and \d are
\* disjoint, so the greedy match never backtracks.
MatchEnd(t, i) ==
  IF ~HasPrefixAt(t, i, ShardRowIDBits) THEN 0
  ELSE LET j == SkipClass(t, i + Len(ShardRowIDBits), PerlSpace)
       IN IF j > Len(t) \/ t[j] # "=" THEN 0
          ELSE LET k == SkipClass(t, j + 1, PerlSpace)
                   e == SkipClass(t, k, PerlDigit)
               IN IF e = k THEN 0 ELSE e

\* reg.FindStringIndex(t): the byte offsets <<start, end>> (from 0, end
\* excluded) of the leftmost match, <<>> (nil) when there is none.
FindStringIndex(t) ==
  LET starts == {i \in 1..Len(t) : MatchEnd(t, i) # 0}
  IN IF starts = {} THEN <<>>
     ELSE LET i == CHOOSE m \in starts : \A n \in starts : m <= n
          IN <<i - 1, MatchEnd(t, i) - 1>>

\* What a call that panics (slice bounds out of range) leaves in place of a
\* result.
SlicePanic == <<"panic: slice bounds out of range">>

\* func addSpecialComment(ddlQuery string) string
addSpecialComment(q) ==
  IF Contains(q, specialPrefix) THEN q
  ELSE LET upperQuery == ToUpper(q)
           loc == FindStringIndex(upperQuery)
       IN IF Len(loc) < 2 THEN q
          ELSE IF loc[2] > Len(q) THEN SlicePanic
          ELSE SubSeq(q, 1, loc[1]) \o specialPrefix \o SubSeq(q, loc[1] + 1, loc[2])
                 \o specialSuffix \o SubSeq(q, loc[2] + 1, Len(q))

InitAnnotate ==
  /\ InitBreaker /\ InitClient /\ InitParseIdle
  /\ apc = "input"
  /\ ddlQuery \in Queries
  /\ annotated = <<>>
  /\ annotatedAgain = <<>>

\* annotated := addSpecialComment(ddlQuery)
AddSpecialComment ==
  /\ apc = "input"
  /\ annotated' = addSpecialComment(ddlQuery)
  /\ apc' = "once"
  /\ UNCHANGED <<ddlQuery, annotatedAgain, ppc, hostPorts, addrs, perr,
                 skipBinlog, ignoreError, criticalErrorCounter, wlocals, casWins,
                 everEnabled, resetSince,
                 pumpsClient, rlocked, wlocked, created, glocals, ghist>>

\* annotatedAgain := addSpecialComment(annotated), when the first call returned
AddSpecialCommentAgain ==
  /\ apc = "once"
  /\ annotated # SlicePanic
  /\ annotatedAgain' = addSpecialComment(annotated)
  /\ apc' = "twice"
  /\ UNCHANGED <<ddlQuery, annotated, ppc, hostPorts, addrs, perr,
                 skipBinlog, ignoreError, criticalErrorCounter, wlocals, casWins,
                 everEnabled, resetSince,
                 pumpsClient, rlocked, wlocked, created, glocals, ghist>>

NextAnnotate ==
  \/ AddSpecialComment
  \/ AddSpecialCommentAgain

SpecAnnotate == InitAnnotate /\ [][NextAnnotate]_vars

\* C13 (as claimed): addSpecialComment returns a text for every statement
\* text, a second call on that text returns the same text, and the result for
\* a statement text without the marker holds the marker at most once.
C13_AnnotateIdempotent ==
  /\ apc # "input" => annotated # SlicePanic
  /\ apc = "twice" => annotatedAgain = annotated
  /\ (apc # "input" /\ ~Contains(ddlQuery, specialPrefix)) =>
       Occurrences(annotated, specialPrefix) <= 1

\* C14 (as claimed): for a statement text without the marker the result is
\* the text with the marker put right before the first clause
\* SHARD_ROW_ID_BITS = <digits> that the text holds when letters are compared
\* without regard to case, and the comment closed right after that clause,
\* every byte of the text kept in its place; without such a clause the result
\* is the text itself.
C14_MarkerAroundFirstClause ==
  (apc # "input" /\ ~Contains(ddlQuery, specialPrefix)) =>
    LET loc == FindStringIndex(FoldCase(ddlQuery))
    IN IF Len(loc) < 2
         THEN annotated = ddlQuery
         ELSE annotated =
                SubSeq(ddlQuery, 1, loc[1]) \o specialPrefix
                  \o SubSeq(ddlQuery, loc[1] + 1, loc[2]) \o specialSuffix
                  \o SubSeq(ddlQuery, loc[2] + 1, Len(ddlQuery))

\* --------------------------------------------------- the address validator

\* the literals of ParseHostPortAddr and of url.URL.String
HttpMarker == <<"h", "t", "t", "p">>
HttpPrefix == <<"h", "t", "t", "p", ":", "/", "/">>
AllowedSchemes == {<<"h", "t", "t", "p">>, <<"h", "t", "t", "p", "s">>, <<"u", "n", "i", "x">>, <<"u", "n", "i", "x", "s">>}

\* unicode.IsSpace for the ASCII bytes (strings.TrimSpace)
AsciiSpace == {" ", "\t", "\n", "\f", "\r"}

\* Host names and a port the candidates are put together from; one host name
\* holds the letters http.
Hosts == {<<"p", "u", "m", "p", "1">>, <<"1", "0", ".", "0", ".", "0", ".", "1">>, <<"h", "t", "t", "p", "d">>}
Port == <<"8", "2", "5", "0">>

\* A candidate host:port without a scheme, as it is or with a blank on each
\* side.
Candidates ==
  { lead \o h \o <<":">> \o Port \o lead : h \in Hosts, lead \in {<<>>, <<" ">>} }

\* The candidate lists: 1..MaxAddrs candidates in a row.
CandidateLists == UNION { [1..n -> Candidates] : n \in 1..MaxAddrs }

\* the candidates of a list joined by commas
RECURSIVE JoinComma(_)
JoinComma(l) ==
  IF Len(l) = 1 THEN Head(l) ELSE Head(l) \o <<",">> \o JoinComma(Tail(l))

\* strings.Index(t, c) + 1 for a one-byte c: the first index of c, 0 if none
IndexByte(t, c) ==
  IF \E i \in 1..Len(t) : t[i] = c
    THEN CHOOSE i \in 1..Len(t) : t[i] = c /\ \A j \in 1..(i - 1) : t[j] # c
    ELSE 0

\* strings.LastIndex(t, c) + 1 for a one-byte c
LastIndexByte(t, c) ==
  IF \E i \in 1..Len(t) : t[i] = c
    THEN CHOOSE i \in 1..Len(t) : t[i] = c /\ \A j \in (i + 1)..Len(t) : t[j] # c
    ELSE 0

\* strings.Split(t, ",")
RECURSIVE Split(_)
Split(t) ==
  LET i == IndexByte(t, ",")
  IN IF i = 0 THEN <<t>>
     ELSE <<SubSeq(t, 1, i - 1)>> \o Split(SubSeq(t, i + 1, Len(t)))

\* strings.TrimSpace(t)
TrimSpace(t) ==
  LET inner == {i \in 1..Len(t) : t[i] \notin AsciiSpace}
  IN IF inner = {} THEN <<>>
     ELSE SubSeq(t, CHOOSE i \in inner : \A j \in inner : i <= j,
                    CHOOSE i \in inner : \A j \in inner : j <= i)

\* unicode.ToLower of an ASCII byte
LowerByte(c) ==
  IF \E i \in 1..Len(AsciiUpper) : AsciiUpper[i] = c
    THEN AsciiLower[CHOOSE i \in 1..Len(AsciiUpper) : AsciiUpper[i] = c]
    ELSE c

IsLetter(c) == (\E i \in 1..Len(AsciiLower) : AsciiLower[i] = c \/ AsciiUpper[i] = c)

\* net/url getscheme: the index of the colon that ends a scheme made of a
\* letter followed by letters, digits, + - and . ; 0 when the text has no
\* scheme, -1 for "missing protocol scheme" (a colon in front).
GetScheme(t) ==
  LET stop == {i \in 1..Len(t) :
                 \/ t[i] = ":"
                 \/ ~IsLetter(t[i]) /\ t[i] \notin (PerlDigit \cup {"+", "-", "."})
                 \/ i = 1 /\ ~IsLetter(t[i])}
  IN IF stop = {} THEN 0
     ELSE LET i == CHOOSE m \in stop : \A n \in stop : m <= n
          IN IF t[i] # ":" THEN 0
             ELSE IF i = 1 THEN -1 ELSE i

\* net/url validOptionalPort: empty, or a colon followed by digits only
ValidOptionalPort(p) ==
  p = <<>> \/ (Head(p) = ":" /\ \A i \in 2..Len(p) : p[i] \in PerlDigit)

\* What url.Parse returns with an error.
ParseFailed ==
  [err |-> TRUE, Scheme |-> <<>>, Opaque |-> <<>>, Host |-> <<>>, Path |-> <<>>]

\* net/url parseAuthority and setPath for a text without user information:
\* the host is the authority, whose port must be digits only.
ParseAuthority(Scheme, authority, path) ==
  IF LastIndexByte(authority, ":") > 0
       /\ ~ValidOptionalPort(SubSeq(authority, LastIndexByte(authority, ":"), Len(authority)))
    THEN ParseFailed
    ELSE [err |-> FALSE, Scheme |-> Scheme, Opaque |-> <<>>,
          Host |-> authority, Path |-> path]

\* the authority of `after` runs to the next /, what is left is the path
SplitAuthority(Scheme, after, slash) ==
  IF slash = 0 THEN ParseAuthority(Scheme, after, <<>>)
  ELSE ParseAuthority(Scheme, SubSeq(after, 1, slash - 1), SubSeq(after, slash, Len(after)))

\* url.Parse after getscheme: a rest that does not begin with / is opaque
\* when there is a scheme and an error when its first segment holds a colon;
\* after // comes the authority; otherwise the rest is the path.
ParseRest(Scheme, rest) ==
  IF ~HasPrefixAt(rest, 1, <<"/">>)
    THEN IF Scheme # <<>>
           THEN [err |-> FALSE, Scheme |-> Scheme, Opaque |-> rest,
                 Host |-> <<>>, Path |-> <<>>]
         ELSE IF IndexByte(rest, ":") > 0
                 /\ (IndexByte(rest, "/") = 0 \/ IndexByte(rest, ":") < IndexByte(rest, "/"))
           THEN ParseFailed
         ELSE [err |-> FALSE, Scheme |-> Scheme, Opaque |-> <<>>,
               Host |-> <<>>, Path |-> rest]
  ELSE IF HasPrefixAt(rest, 1, <<"/", "/">>)
          /\ (Scheme # <<>> \/ ~HasPrefixAt(rest, 1, <<"/", "/", "/">>))
    THEN SplitAuthority(Scheme, SubSeq(rest, 3, Len(rest)),
                        IndexByte(SubSeq(rest, 3, Len(rest)), "/"))
  ELSE [err |-> FALSE, Scheme |-> Scheme, Opaque |-> <<>>, Host |-> <<>>, Path |-> rest]

\* the scheme is split off at the colon c and put in lower case
ParseFrom(t, c) ==
  IF c = -1 THEN ParseFailed
  ELSE IF c > 0
    THEN ParseRest([i \in 1..(c - 1) |-> LowerByte(t[i])], SubSeq(t, c + 1, Len(t)))
  ELSE ParseRest(<<>>, t)

\* url.Parse for texts without ? # @ [ ] and %
Parse(t) == ParseFrom(t, GetScheme(t))

\* net.SplitHostPort(hostport) returns an error (no brackets in the text):
\* no colon (missing port) or more than one (too many colons).
SplitHostPortFails(hostport) ==
  \/ LastIndexByte(hostport, ":") = 0
  \/ IndexByte(hostport, ":") # LastIndexByte(hostport, ":")

\* u.String() of a URL with a scheme (nothing in the text needs escaping)
URLString(u) ==
  IF u.Opaque # <<>> THEN u.Scheme \o <<":">> \o u.Opaque
  ELSE u.Scheme \o <<":">>
         \o (IF u.Host # <<>> \/ u.Path # <<>> THEN <<"/", "/">> ELSE <<>>)
         \o u.Host \o u.Path

\* `if !strings.Contains(str, "http") { str = fmt.Sprintf("http://%s", str) }`
WithScheme(str) ==
  IF ~Contains(str, HttpMarker) THEN HttpPrefix \o str ELSE str

\* The tests of the loop body on the parsed URL: the error the function
\* returns at this element ("nil": none) and the address it appends.
Validate(u) ==
  IF u.err THEN [err |-> "ErrParse", addr |-> <<>>]
  ELSE IF u.Scheme \notin AllowedSchemes THEN [err |-> "ErrScheme", addr |-> <<>>]
  ELSE IF SplitHostPortFails(u.Host) THEN [err |-> "ErrHostPort", addr |-> <<>>]
  ELSE IF u.Path # <<>> THEN [err |-> "ErrPath", addr |-> <<>>]
  ELSE [err |-> "nil", addr |-> URLString(u)]

\* The body of the loop for one element of strs.
ParseOne(e) == Validate(Parse(WithScheme(TrimSpace(e))))

\* The loop over the outcomes of the elements: the addresses in the order of
\* strs, or nil and the error of the first element that fails.
Collect(each) ==
  IF \A i \in 1..Len(each) : each[i].err = "nil"
    THEN [addrs |-> [i \in 1..Len(each) |-> each[i].addr], err |-> "nil"]
    ELSE [addrs |-> <<>>,
          err |-> each[CHOOSE i \in 1..Len(each) :
                         /\ each[i].err # "nil"
                         /\ \A j \in 1..(i - 1) : each[j].err = "nil"].err]

\* the loop body applied to every element of strs
ParseEach(strs) == [i \in 1..Len(strs) |-> ParseOne(strs[i])]

\* func ParseHostPortAddr(s string) ([]string, error)
ParseHostPortAddr(s) == Collect(ParseEach(Split(s)))

InitParse ==
  /\ InitBreaker /\ InitClient /\ InitAnnotateIdle
  /\ ppc = "input"
  /\ hostPorts \in {JoinComma(l) : l \in CandidateLists}
  /\ addrs = <<>>
  /\ perr = "nil"

\* `return addrs, nil` or `return nil, err`
Return(r) ==
  /\ addrs' = r.addrs
  /\ perr' = r.err

\* addrs, err := ParseHostPortAddr(hostPorts)
CallParseHostPortAddr ==
  /\ ppc = "input"
  /\ Return(ParseHostPortAddr(hostPorts))
  /\ ppc' = "done"
  /\ UNCHANGED <<hostPorts, apc, ddlQuery, annotated, annotatedAgain,
                 skipBinlog, ignoreError, criticalErrorCounter, wlocals, casWins,
                 everEnabled, resetSince,
                 pumpsClient, rlocked, wlocked, created, glocals, ghist>>

NextParse == CallParseHostPortAddr

SpecParse == InitParse /\ [][NextParse]_vars

\* C15 (as claimed): for a list of host:port candidates without a scheme,
\* joined by commas, ParseHostPortAddr returns no error and one address per
\* candidate, in the order of the list and with duplicates kept: http://
\* followed by the candidate's host:port.
C15_SchemelessGetHttp ==
  ppc = "done" =>
    \A l \in CandidateLists :
      JoinComma(l) = hostPorts =>
        /\ perr = "nil"
        /\ addrs = [i \in 1..Len(l) |-> HttpPrefix \o SelectSeq(l[i], LAMBDA b : b # " ")]

=============================================================================
